---- MODULE Spec2Model ----
(***************************************************************************)
(* Run execution and observability pipeline of agentops-hub.               *)
(*                                                                         *)
(* Spec follows backend/app/api/v1/runs.py and services/run_service.py     *)
(* (run creation, dispatch, execute_run_async) and backend/app/ai/runner.py *)
(* (execute_run and log_step), with the tool calls of the reasoning loop   *)
(* (ai/agent_builder.py).  Storage is the set of committed rows: every     *)
(* db.commit() of the code is one atomic step that either writes or raises *)
(* and writes nothing.  Every storage call, the agent construction and the *)
(* reasoning loop can raise, each independently of the others.             *)
(*                                                                         *)
(* SpecTools applies the tool gateway (ai/tool_registry.py) to one call    *)
(* drawn from bounded sets of names, argument maps, contexts and backend   *)
(* outcomes.  SpecStream follows the status stream (api/v1/streaming.py)   *)
(* of one run while the commits of its execution change the row.           *)
(***************************************************************************)
EXTENDS Integers, Sequences, FiniteSets, TLC

\* ------------------------------------------------------------------ bounds
MaxPriorTurns == 1    \* user/assistant turns a conversation holds initially
MaxCycles == 2        \* tool-calling cycles of one reasoning loop

\* ---------------------------------------------------------------- universe
Users == {1, 2}
AgentIds == {1, 2}
ConvIds == {1, 2}
\* One run is created in a behaviour.  Runs share no state but the messages
\* of a conversation, whose earlier turns Init supplies.
RunIds == {1}
Inputs == {"q1", "q2"}
Answers == {"a1", "a2"}

\* Agent.user_id of the seeded agents, Conversation.user_id and
\* Conversation.agent_id of the seeded conversations.
AgentOwner(a) == a
ConvOwner(c) == 1
ConvAgent(c) == c

\* Optional[...] / nullable column: None or one value.
None == <<>>
Some(x) == <<x>>

\* str(e) of the exceptions the steps can raise.
ErrDb == "database error"
ErrNoRun == "'NoneType' object has no attribute 'status'"
ErrBuild == "agent construction failed"
ErrLLM == "llm transport error"
ErrNoConv == "404: Conversation not found"

VARIABLES
    agents,     \* ids of the Agent rows
    convs,      \* ids of the Conversation rows
    messages,   \* Conversation.messages, ordered by Message.id
    runs,       \* Run rows by id
    steps,      \* RunStep rows of each run, ordered by RunStep.id
    nextRunId,  \* the next value of the runs.id sequence
    now,        \* datetime.utcnow(), a logical clock
    trail,      \* the statuses committed for each run id, in commit order
    base,       \* the messages of each run's conversation when the run was created
    call,       \* the last direct call of the tool gateway and its outcome
    resp,       \* the last request to create a run and its response
    scheduled,  \* how many executions have been scheduled for each run id
    stream,     \* the status stream of a run: its locals and the events sent
    pc,         \* where the background thread of each run is
    th          \* the locals of that thread (execute_run_async, execute_run)

vars == <<agents, convs, messages, runs, steps, nextRunId, now, trail, base, call, resp, scheduled, stream,
          pc, th>>

\* ------------------------------------------------------------------- rows
NewRun(u, a, c, text) ==
    [status |-> "PENDING", input_text |-> text, output_text |-> None,
     error_message |-> None, user_id |-> u, agent_id |-> a,
     conversation_id |-> c, started_at |-> None, completed_at |-> None]

\* Mutant: the status assignment of the start is lost.
RunningRow_StatusNotSet(run, t) ==
    [run EXCEPT !.started_at = Some(t)]

RunningRow(run, t) ==
    [run EXCEPT !.status = "RUNNING", !.started_at = Some(t)]

CompletedRow(run, out, t) ==
    [run EXCEPT !.status = "COMPLETED", !.output_text = Some(out),
                !.completed_at = Some(t)]

\* Mutant: the failure handler records the message but not the status.
FailedRow_StatusNotSet(run, msg, t) ==
    [run EXCEPT !.error_message = Some(msg), !.completed_at = Some(t)]

\* Mutant: the failure handler does not stamp completed_at.
FailedRow_NotStamped(run, msg, t) ==
    [run EXCEPT !.status = "FAILED", !.error_message = Some(msg)]

FailedRow(run, msg, t) ==
    [run EXCEPT !.status = "FAILED", !.error_message = Some(msg),
                !.completed_at = Some(t)]

AgentNotFoundRow(run) ==
    [run EXCEPT !.status = "FAILED", !.error_message = Some("Agent not found")]

FatalMessage(e) == "Fatal error: " \o e

RunStep(order, type, input, output, err, dur) ==
    [step_order |-> order, step_type |-> type, input_data |-> input,
     output_data |-> output, tool_name |-> None, error_message |-> err,
     duration_ms |-> dur]

HistoryStep(order, history) ==
    RunStep(order, "LLM_CALL",
            Some([conversation_history |-> <<"Loaded", Len(history), "previous messages">>]),
            None, None, None)

\* Mutant: the input step is recorded without its input_data.
InputStep_NoInput(order, text) ==
    RunStep(order, "LLM_CALL", None, None, None, None)

InputStep(order, text) ==
    RunStep(order, "LLM_CALL", Some([user_input |-> text]), None, None, None)

\* Mutant: the answer is passed as input_data instead of output_data.
FinalStep_AnswerAsInput(order, out) ==
    RunStep(order, "FINAL_ANSWER", Some([answer |-> out]), None, None, Some("elapsed"))

FinalStep(order, out) ==
    RunStep(order, "FINAL_ANSWER", None, Some([answer |-> out]), None, Some("elapsed"))

ErrorStep(order, msg) ==
    RunStep(order, "ERROR", None, None, Some(msg), None)

Message(role, content) == [role |-> role, content |-> content]

\* The messages of n earlier completed turns.
RECURSIVE PriorTurns(_)
PriorTurns(n) ==
    IF n = 0 THEN <<>>
    ELSE PriorTurns(n - 1) \o <<Message("user", "q1"), Message("assistant", "a1")>>

NoLocals ==
    [agent |-> None, input_text |-> None, user_id |-> None,
     conversation_id |-> None, step_order |-> 0, history_messages |-> <<>>,
     output_text |-> None, exc |-> None, llm_calls |-> 0, tool_calls |-> 0,
     tool_result |-> None, failed_tools |-> {}, log_failed |-> FALSE]

\* No stream has been opened.
NoStream ==
    [pc |-> "idle", run_id |-> None, poll_count |-> 0, last_status |-> None,
     terminal_at |-> None, exc |-> None, events |-> <<>>]

\* ------------------------------------------------------------------- Init
Init ==
    /\ agents = AgentIds
    /\ convs = ConvIds
    /\ \E n \in [ConvIds -> 0..MaxPriorTurns] :
          messages = [c \in ConvIds |-> PriorTurns(n[c])]
    /\ runs = <<>>
    /\ steps = <<>>
    /\ nextRunId = 1
    /\ now = 1
    /\ trail = [r \in RunIds |-> <<>>]
    /\ base = [r \in RunIds |-> <<>>]
    /\ call = None
    /\ resp = None
    /\ scheduled = [r \in RunIds |-> 0]
    /\ stream = NoStream
    /\ pc = [r \in RunIds |-> "none"]
    /\ th = [r \in RunIds |-> NoLocals]

\* --------------------------------------------------------------- helpers
Exists(r) == r \in DOMAIN runs

get_conversation(c, u) ==
    IF c \in convs /\ ConvOwner(c) = u THEN Some(c) ELSE None

get_conversation_history(c, u) ==
    IF get_conversation(c, u) = None THEN <<>> ELSE messages[c]

\* One committed write of a Run row.
WriteRun(r, row) ==
    /\ runs' = [runs EXCEPT ![r] = row]
    /\ trail' = [trail EXCEPT ![r] = Append(@, row.status)]

Raise(r, handler, e) ==
    /\ pc' = [pc EXCEPT ![r] = handler]
    /\ th' = [th EXCEPT ![r].exc = Some(e)]

\* log_step raises.  log_failed is history: a log_step call of this run
\* has raised.
RaiseFromLog(r, handler) ==
    /\ pc' = [pc EXCEPT ![r] = handler]
    /\ th' = [th EXCEPT ![r].exc = Some(ErrDb), ![r].log_failed = TRUE]

\* log_step: db.add, db.commit, db.refresh.  "ok" persists the step and
\* returns; "raise" fails at the commit and persists nothing; "raise_late"
\* fails at the refresh, after the commit.  A step of a deleted run violates
\* the run_id foreign key.
LogOutcomes(r) == IF Exists(r) THEN {"ok", "raise", "raise_late"} ELSE {"raise"}

\* Mutant: the new step takes the place of the last one.
AppendStep_OverLast(r, step) ==
    [steps EXCEPT ![r] = IF @ = <<>> THEN <<step>> ELSE [@ EXCEPT ![Len(@)] = step]]

AppendStep(r, step) == [steps EXCEPT ![r] = Append(@, step)]

log_step(r, o, step) ==
    steps' = IF o \in {"ok", "raise_late"} THEN AppendStep(r, step) ELSE steps

\* ------------------------------------------------------------------ tools
\* A call returns a value or raises; effects names the external calls made
\* on the way ("call" is the invocation of a handler).
Return(v, fx) == [raised |-> FALSE, value |-> v, effects |-> fx]
Raised(e, fx) == [raised |-> TRUE, value |-> e, effects |-> fx]
ErrorMap(msg) == [error |-> msg]

\* What the world outside the process does during one call: every backend
\* answers, the backend the handler needs is unreachable, or the file of
\* the document is missing on disk.
Envs == {"up", "down", "nofile"}

ErrConn == "connection refused"
ErrMissingArg == "missing required argument"

\* Document rows: ids and Document.user_id.
Documents == {1, 2}
DocOwner(d) == d

\* Document ids a caller can ask for; 3 names no row.
DocIdsAsked == {1, 2, 3}

\* "SELECT * FROM x"
QSelectAll ==
    <<"S", "E", "L", "E", "C", "T", " ", "*", " ", "F", "R", "O", "M", " ",
      "x">>

\* "DROP TABLE x"
QDrop ==
    <<"D", "R", "O", "P", " ", "T", "A", "B", "L", "E", " ", "x">>

\* "UPDATE x SET a=1"
QUpdate ==
    <<"U", "P", "D", "A", "T", "E", " ", "x", " ", "S", "E", "T", " ", "a",
      "=", "1">>

\* "  select 1 "
QPadded ==
    <<" ", " ", "s", "e", "l", "e", "c", "t", " ", "1", " ">>

\* "SeLeCt id FROM t"
QMixedCase ==
    <<"S", "e", "L", "e", "C", "t", " ", "i", "d", " ", "F", "R", "O", "M",
      " ", "t">>

\* "select * from updates"
QFromUpdates ==
    <<"s", "e", "l", "e", "c", "t", " ", "*", " ", "f", "r", "o", "m", " ",
      "u", "p", "d", "a", "t", "e", "s">>

\* "SELECT 1; DROP TABLE x"
QStacked ==
    <<"S", "E", "L", "E", "C", "T", " ", "1", ";", " ", "D", "R", "O", "P",
      " ", "T", "A", "B", "L", "E", " ", "x">>

\* "select created_at from t"
QCreatedAt ==
    <<"s", "e", "l", "e", "c", "t", " ", "c", "r", "e", "a", "t", "e", "d",
      "_", "a", "t", " ", "f", "r", "o", "m", " ", "t">>

\* "WITH a AS (SELECT 1) SELECT * FROM a"
QWith ==
    <<"W", "I", "T", "H", " ", "a", " ", "A", "S", " ", "(", "S", "E", "L",
      "E", "C", "T", " ", "1", ")", " ", "S", "E", "L", "E", "C", "T", " ",
      "*", " ", "F", "R", "O", "M", " ", "a">>

\* ""
QEmpty ==
    <<>>

Queries ==
    {QSelectAll, QDrop, QUpdate, QPadded, QMixedCase,
     QFromUpdates, QStacked, QCreatedAt, QWith, QEmpty}

Select == <<"s", "e", "l", "e", "c", "t">>

dangerous ==
    <<<<"i", "n", "s", "e", "r", "t">>,
      <<"u", "p", "d", "a", "t", "e">>,
      <<"d", "e", "l", "e", "t", "e">>,
      <<"d", "r", "o", "p">>,
      <<"a", "l", "t", "e", "r">>,
      <<"c", "r", "e", "a", "t", "e">>,
      <<"t", "r", "u", "n", "c", "a", "t", "e">>>>

\* str.lower() on the letters the queries use.
LowerOf ==
    [A |-> "a", B |-> "b", C |-> "c", D |-> "d", E |-> "e", F |-> "f", H |-> "h", I |-> "i", L |-> "l", M |-> "m", O |-> "o", P |-> "p", R |-> "r", S |-> "s", T |-> "t", U |-> "u", W |-> "w"]

Whitespace == {" ", "\t", "\n"}

lower(s) == [i \in 1..Len(s) |-> IF s[i] \in DOMAIN LowerOf THEN LowerOf[s[i]] ELSE s[i]]

RECURSIVE lstrip(_)
lstrip(s) == IF s # <<>> /\ Head(s) \in Whitespace THEN lstrip(Tail(s)) ELSE s

RECURSIVE rstrip(_)
rstrip(s) ==
    IF s # <<>> /\ s[Len(s)] \in Whitespace
    THEN rstrip(SubSeq(s, 1, Len(s) - 1))
    ELSE s

strip(s) == rstrip(lstrip(s))

startswith(s, prefix) ==
    /\ Len(s) >= Len(prefix)
    /\ SubSeq(s, 1, Len(prefix)) = prefix

\* keyword in s
contains(s, keyword) ==
    \E i \in 1..(Len(s) - Len(keyword) + 1) :
        SubSeq(s, i, i + Len(keyword) - 1) = keyword

\* Mutant: the keyword check is dropped.
IsForbidden_Never(query_lower) == FALSE

\* any(keyword in query_lower for keyword in dangerous)
IsForbidden(query_lower) ==
    \E k \in 1..Len(dangerous) : contains(query_lower, dangerous[k])

\* vectorstore_qdrant.search: the embedding call and the Qdrant query.
search(env) ==
    IF env = "down"
    THEN Raised("Qdrant search failed: " \o ErrConn, {"qdrant.search"})
    ELSE Return(<<[text |-> "chunk", score |-> 1]>>, {"qdrant.search"})

vector_search_handler(kwargs, env) ==
    LET results == search(env)
    IN  IF results.raised
        THEN Return(ErrorMap("Vector search failed: " \o results.value), results.effects)
        ELSE Return([results |-> <<[text |-> "chunk", relevance_score |-> 1]>>,
                     count |-> Len(results.value)], results.effects)

sql_query_handler(kwargs, env) ==
    LET query_lower == lower(strip(kwargs.query))
    IN  IF ~startswith(query_lower, Select)
        THEN Return(ErrorMap("Only SELECT queries are allowed"), {})
        ELSE IF IsForbidden(query_lower)
        THEN Return(ErrorMap("Query contains forbidden keywords"), {})
        ELSE IF env = "down"
        THEN Return(ErrorMap("SQL query failed: " \o ErrDb), {"db.execute"})
        ELSE Return([rows |-> <<>>, count |-> 0], {"db.execute"})

\* str.upper() of the methods asked for and of the roles a message has.
upper(method) ==
    CASE method = "get" -> "GET"
      [] method = "post" -> "POST"
      [] method = "user" -> "USER"
      [] method = "assistant" -> "ASSISTANT"
      [] OTHER -> method

Methods == {"GET", "get", "POST", "DELETE"}

http_fetch_handler(kwargs, env) ==
    LET method == IF "method" \in DOMAIN kwargs THEN kwargs.method ELSE "GET"
    IN  IF upper(method) \notin {"GET", "POST"}
        THEN Return(ErrorMap("Unsupported method: " \o method), {})
        ELSE IF env = "down"
        THEN Return(ErrorMap("HTTP request failed: " \o ErrConn), {"http.request"})
        ELSE Return([status_code |-> 200, data |-> "body"], {"http.request"})

\* Mutant: the owner filter of the document query is dropped.
query_document_AnyOwner(doc_id, user_id) ==
    IF doc_id \in Documents THEN Some(doc_id) ELSE None

\* db.query(Document).filter(id == doc_id, user_id == user_id).first()
query_document(doc_id, user_id) ==
    IF doc_id \in Documents /\ DocOwner(doc_id) = user_id THEN Some(doc_id) ELSE None

file_fetch_handler(kwargs, env) ==
    IF env = "down"
    THEN Return(ErrorMap("File fetch failed: " \o ErrDb), {"db.query"})
    ELSE LET doc == query_document(kwargs.doc_id, kwargs.user_id)
         IN  IF doc = None
             THEN Return(ErrorMap("Document not found or access denied"), {"db.query"})
             ELSE IF env = "nofile"
             THEN Return(ErrorMap("File not found on disk"), {"db.query"})
             ELSE Return([filename |-> <<"file", doc[1]>>,
                          content |-> <<"content", doc[1]>>,
                          size_bytes |-> 1, processed |-> TRUE],
                         {"db.query", "open"})

web_search_handler(kwargs, env) ==
    IF env = "down"
    THEN Return(ErrorMap("Web search failed: " \o ErrConn), {"ddgs.text"})
    ELSE Return([results |-> "formatted results"], {"ddgs.text"})

TOOL_HANDLERS ==
    {"vector_search", "sql_query", "http_fetch", "file_fetch", "web_search"}

\* The parameters of each handler that have no default.
Required(tool_name) ==
    CASE tool_name = "vector_search" -> {"user_id", "agent_id", "query"}
      [] tool_name = "sql_query" -> {"db", "query"}
      [] tool_name = "http_fetch" -> {"url"}
      [] tool_name = "file_fetch" -> {"db", "user_id", "doc_id"}
      [] tool_name = "web_search" -> {"query"}

\* handler(**kwargs): a TypeError when a required parameter is missing (the
\* handlers take **kwargs, so no keyword is unexpected), else the body.
Call(tool_name, kwargs, env) ==
    IF Required(tool_name) \ DOMAIN kwargs # {}
    THEN Raised(ErrMissingArg, {"call"})
    ELSE LET out == CASE tool_name = "vector_search" -> vector_search_handler(kwargs, env)
                      [] tool_name = "sql_query" -> sql_query_handler(kwargs, env)
                      [] tool_name = "http_fetch" -> http_fetch_handler(kwargs, env)
                      [] tool_name = "file_fetch" -> file_fetch_handler(kwargs, env)
                      [] tool_name = "web_search" -> web_search_handler(kwargs, env)
         IN  [out EXCEPT !.effects = @ \cup {"call"}]

\* Mutant: the gateway has no except clause.
execute_tool_NoCatch(tool_name, arguments, context, env) ==
    IF tool_name \notin TOOL_HANDLERS
    THEN Return(ErrorMap("Unknown tool: " \o tool_name), {})
    ELSE Call(tool_name, context @@ arguments, env)

\* Mutant: a key of the arguments wins.
merge_kwargs_ArgumentsWin(arguments, context) == arguments @@ context

\* kwargs = {**arguments, **context}: a key of the context wins.
merge_kwargs(arguments, context) == context @@ arguments

execute_tool(tool_name, arguments, context, env) ==
    IF tool_name \notin TOOL_HANDLERS
    THEN Return(ErrorMap("Unknown tool: " \o tool_name), {})
    ELSE LET out == Call(tool_name, merge_kwargs(arguments, context), env)
         IN  IF out.raised
             THEN Return(ErrorMap("Tool execution failed: " \o out.value), out.effects)
             ELSE out

\* The context the closure of build_agent passes.
ToolContext(user_id, agent_id) ==
    [user_id |-> user_id, agent_id |-> agent_id, db |-> "session"]

tool_fn(name, kwargs, user_id, agent_id, env) ==
    execute_tool(name, kwargs, ToolContext(user_id, agent_id), env)

\* The knowledge-base tool of a kb_enabled agent: it calls the vector store
\* itself, not the gateway, and has no except clause.
vector_search_fn(env) ==
    LET results == search(env)
    IN  IF results.raised THEN results
        ELSE Return("chunk", results.effects)

\* ------------------------------------------------- run creation, dispatch
\* Mutant: the agent is looked up by id alone.
OwnsAgent_AnyUser(a, u) == a \in agents

\* db.query(Agent).filter(id == agent_id, user_id == user_id).first()
OwnsAgent(a, u) == a \in agents /\ AgentOwner(a) = u

RunCreate(u, a, c, text) ==
    [user_id |-> u, agent_id |-> a, conversation_id |-> c, input_text |-> text]

\* The response of POST /runs: 201 with the run, 400 for a ValueError of
\* create_run, 500 for any other exception.
Response(code, request, run_id) ==
    Some([status_code |-> code, request |-> request, run_id |-> run_id])

Respond(code, request) ==
    /\ resp' = Response(code, request, None)
    /\ UNCHANGED <<runs, steps, trail, base, scheduled, pc, nextRunId>>

InsertRun(u, a, c, text) ==
    /\ runs' = runs @@ (nextRunId :> NewRun(u, a, c, text))
    /\ steps' = steps @@ (nextRunId :> <<>>)
    /\ trail' = [trail EXCEPT ![nextRunId] = <<"PENDING">>]
    /\ base' = [base EXCEPT ![nextRunId] = IF c = None THEN <<>> ELSE messages[c[1]]]
    /\ nextRunId' = nextRunId + 1

\* background_tasks.add_task(run_service.start_run_execution, run_id, db)
add_task(run_id) ==
    /\ scheduled' = [scheduled EXCEPT ![run_id] = @ + 1]
    /\ pc' = [pc EXCEPT ![run_id] = "queued"]

\* The endpoint create_run: run_service.create_run, then add_task.  A query
\* or the commit raises and nothing is written; db.refresh raises after the
\* commit and the row stays, with no task added.
CreateRun(u, a, c, text) ==
    /\ nextRunId \in RunIds
    /\ LET request == RunCreate(u, a, c, text)
       IN  \/ Respond(500, request)
           \/ /\ ~OwnsAgent(a, u)
              /\ Respond(400, request)
           \/ /\ OwnsAgent(a, u)
              /\ c # None /\ get_conversation(c[1], u) = None
              /\ Respond(400, request)
           \/ /\ OwnsAgent(a, u)
              /\ c # None => get_conversation(c[1], u) # None
              /\ InsertRun(u, a, c, text)
              /\ \/ /\ resp' = Response(201, request, Some(nextRunId))
                    /\ add_task(nextRunId)
                 \/ /\ resp' = Response(500, request, None)
                    /\ UNCHANGED <<scheduled, pc>>
    /\ UNCHANGED <<call, stream, agents, convs, messages, now, th>>

start_run_execution(r) ==
    /\ pc[r] = "queued"
    /\ pc' = [pc EXCEPT ![r] = "async_load"]
    /\ UNCHANGED <<base, call, resp, scheduled, stream, agents, convs, messages, runs, trail, steps, nextRunId, now, th>>

\* -------------------------------------------------------- agent deletion
CascadeRuns(a) == {r \in DOMAIN runs : runs[r].agent_id = a}
CascadeConvs(a) == {c \in convs : ConvAgent(c) = a}

delete_agent(a) ==
    /\ a \in agents
    /\ agents' = agents \ {a}
    /\ convs' = convs \ CascadeConvs(a)
    /\ messages' = [c \in ConvIds |-> IF c \in CascadeConvs(a) THEN <<>> ELSE messages[c]]
    /\ runs' = [r \in DOMAIN runs \ CascadeRuns(a) |->
                  IF runs[r].conversation_id # None
                     /\ runs[r].conversation_id[1] \in CascadeConvs(a)
                  THEN [runs[r] EXCEPT !.conversation_id = None]
                  ELSE runs[r]]
    /\ steps' = [r \in DOMAIN runs \ CascadeRuns(a) |-> steps[r]]
    /\ UNCHANGED <<base, call, resp, scheduled, stream, nextRunId, now, trail, pc, th>>

\* ------------------------------------------------------ execute_run_async
AsyncLoad(r) ==
    /\ pc[r] = "async_load"
    /\ \/ /\ pc' = [pc EXCEPT ![r] = "crashed"]
          /\ th' = [th EXCEPT ![r].exc = Some(ErrDb)]
       \/ /\ ~Exists(r)
          /\ pc' = [pc EXCEPT ![r] = "done"]
          /\ th' = th
       \/ /\ Exists(r)
          /\ pc' = [pc EXCEPT ![r] = "async_agent"]
          /\ th' = [th EXCEPT ![r].agent = Some(runs[r].agent_id),
                              ![r].input_text = Some(runs[r].input_text),
                              ![r].user_id = Some(runs[r].user_id),
                              ![r].conversation_id = runs[r].conversation_id]
    /\ UNCHANGED <<base, call, resp, scheduled, stream, agents, convs, messages, runs, trail, steps, nextRunId, now>>

AsyncAgent(r) ==
    /\ pc[r] = "async_agent"
    /\ \/ /\ Raise(r, "crashed", ErrDb)
          /\ UNCHANGED <<runs, trail>>
       \/ /\ th[r].agent[1] \notin agents
          /\ IF Exists(r)
             THEN \/ /\ WriteRun(r, AgentNotFoundRow(runs[r]))
                     /\ pc' = [pc EXCEPT ![r] = "done"]
                     /\ th' = th
                  \/ /\ Raise(r, "crashed", ErrDb)
                     /\ UNCHANGED <<runs, trail>>
             ELSE /\ Raise(r, "crashed", ErrDb)
                  /\ UNCHANGED <<runs, trail>>
       \/ /\ th[r].agent[1] \in agents
          /\ pc' = [pc EXCEPT ![r] = "set_running"]
          /\ th' = [th EXCEPT ![r].step_order = 0]
          /\ UNCHANGED <<runs, trail>>
    /\ UNCHANGED <<base, call, resp, scheduled, stream, agents, convs, messages, steps, nextRunId, now>>

\* ------------------------------------------------------------ execute_run
Goto(r, p) == pc' = [pc EXCEPT ![r] = p]

\* A status commit writes the row or raises; the row of a deleted run cannot
\* be updated.
CommitOutcomes(r) == IF Exists(r) THEN {"ok", "raise"} ELSE {"raise"}

SetRunning(r) ==
    /\ pc[r] = "set_running"
    /\ \/ /\ Exists(r)
          /\ WriteRun(r, RunningRow(runs[r], now))
          /\ now' = now + 1
          /\ Goto(r, "load_history")
          /\ th' = th
       \/ /\ Raise(r, "fatal_commit", IF Exists(r) THEN ErrDb ELSE ErrNoRun)
          /\ UNCHANGED <<runs, trail, now>>
    /\ UNCHANGED <<base, call, resp, scheduled, stream, agents, convs, messages, steps, nextRunId>>

\* Mutant: the test of the loaded history is inverted.
HistoryStepNeeded_Inverted(history) == history = <<>>

HistoryStepNeeded(history) == history # <<>>

AfterHistory(history) ==
    IF HistoryStepNeeded(history) THEN "log_history" ELSE "log_input"

LoadHistory(r) ==
    /\ pc[r] = "load_history"
    /\ \/ /\ th[r].conversation_id = None
          /\ Goto(r, AfterHistory(<<>>))
          /\ th' = [th EXCEPT ![r].history_messages = <<>>]
       \/ /\ th[r].conversation_id # None
          /\ LET h == get_conversation_history(th[r].conversation_id[1], th[r].user_id[1])
             IN  /\ Goto(r, AfterHistory(h))
                 /\ th' = [th EXCEPT ![r].history_messages = h]
       \/ /\ th[r].conversation_id # None
          /\ Raise(r, "fatal_commit", ErrDb)
    /\ UNCHANGED <<base, call, resp, scheduled, stream, agents, convs, messages, runs, trail, steps, nextRunId, now>>

\* A log_step call of the outer try block: the counter advances only when
\* log_step returns.
LogThenAdvance(r, step, next) ==
    \E o \in LogOutcomes(r) :
        /\ log_step(r, o, step)
        /\ IF o = "ok"
           THEN /\ Goto(r, next)
                /\ th' = [th EXCEPT ![r].step_order = @ + 1]
           ELSE RaiseFromLog(r, "fatal_commit")

LogHistory(r) ==
    /\ pc[r] = "log_history"
    /\ LogThenAdvance(r, HistoryStep(th[r].step_order, th[r].history_messages), "log_input")
    /\ UNCHANGED <<base, call, resp, scheduled, stream, agents, convs, messages, runs, trail, nextRunId, now>>

LogInput(r) ==
    /\ pc[r] = "log_input"
    /\ LogThenAdvance(r, InputStep(th[r].step_order, th[r].input_text[1]), "build_agent")
    /\ UNCHANGED <<base, call, resp, scheduled, stream, agents, convs, messages, runs, trail, nextRunId, now>>

BuildAgent(r) ==
    /\ pc[r] = "build_agent"
    /\ \/ /\ Goto(r, "run_agent")
          /\ th' = th
       \/ Raise(r, "fatal_commit", ErrBuild)
    /\ UNCHANGED <<base, call, resp, scheduled, stream, agents, convs, messages, runs, trail, steps, nextRunId, now>>

\* Agent.tools and Agent.kb_enabled of the seeded agents.
AgentTools(a) == IF a = 1 THEN {"http_fetch"} ELSE {"file_fetch"}
KbEnabled(a) == a = 1

\* The argument maps the LLM passes to a tool of the agent.
LoopArguments(name) ==
    IF name = "http_fetch" THEN {[url |-> "http://svc/"]}
    ELSE {[doc_id |-> d] : d \in DocIdsAsked}

\* An exception leaves llama_agent.run; the transcript of the loop is lost.
\* failed_tools is history: the tools whose call has failed in this run.
LoopExit(r, e, failed) ==
    /\ pc' = [pc EXCEPT ![r] = "agent_error_log"]
    /\ th' = [th EXCEPT ![r].exc = Some(e), ![r].tool_result = None,
                        ![r].failed_tools = @ \cup failed]

IsError(result) == "error" \in DOMAIN result

\* The reasoning loop (llama_agent.run): every cycle calls the LLM, which
\* either asks for a tool, whose result is fed back, or gives the answer.
\* An exception that leaves the tool function leaves the loop.
LoopToolCycle(r) ==
    /\ pc[r] = "run_agent"
    /\ th[r].tool_calls < MaxCycles
    /\ \E name \in AgentTools(th[r].agent[1]), env \in Envs :
       \E kwargs \in LoopArguments(name) :
          LET out == tool_fn(name, kwargs, th[r].user_id[1], th[r].agent[1], env)
          IN  IF out.raised
              THEN LoopExit(r, out.value, {name})
              ELSE /\ th' = [th EXCEPT ![r].llm_calls = @ + 1,
                                       ![r].tool_calls = @ + 1,
                                       ![r].tool_result = Some(out.value),
                                       ![r].failed_tools =
                                          IF IsError(out.value) THEN @ \cup {name} ELSE @]
                   /\ pc' = pc
    /\ UNCHANGED <<base, call, resp, scheduled, stream, agents, convs, messages, runs, trail, steps, nextRunId, now>>

\* A cycle that calls the knowledge-base tool.  When vector_search_fn raises,
\* the agent library, whose code is not in the repository, either lets the
\* exception leave the loop or feeds its text back as the tool result.
LoopKbCycle(r) ==
    /\ pc[r] = "run_agent"
    /\ th[r].tool_calls < MaxCycles
    /\ KbEnabled(th[r].agent[1])
    /\ \E env \in Envs :
          LET out == vector_search_fn(env)
          IN  \/ /\ out.raised
                 /\ LoopExit(r, out.value, {"knowledge_base_search"})
              \/ /\ th' = [th EXCEPT ![r].llm_calls = @ + 1,
                                     ![r].tool_calls = @ + 1,
                                     ![r].tool_result =
                                        Some(IF out.raised THEN ErrorMap(out.value)
                                             ELSE [content |-> out.value]),
                                     ![r].failed_tools =
                                        IF out.raised
                                        THEN @ \cup {"knowledge_base_search"} ELSE @]
                 /\ pc' = pc
    /\ UNCHANGED <<base, call, resp, scheduled, stream, agents, convs, messages, runs, trail, steps, nextRunId, now>>

LoopAnswer(r) ==
    /\ pc[r] = "run_agent"
    /\ \E out \in Answers :
          th' = [th EXCEPT ![r].llm_calls = @ + 1, ![r].output_text = Some(out),
                           ![r].tool_result = None]
    /\ Goto(r, IF th[r].conversation_id # None THEN "save_user" ELSE "log_final")
    /\ UNCHANGED <<base, call, resp, scheduled, stream, agents, convs, messages, runs, trail, steps, nextRunId, now>>

\* The LLM call of a cycle raises.
LoopRaise(r) ==
    /\ pc[r] = "run_agent"
    /\ LoopExit(r, ErrLLM, {})
    /\ UNCHANGED <<base, call, resp, scheduled, stream, agents, convs, messages, runs, trail, steps, nextRunId, now>>

\* add_message: 404 when the conversation is not the user's, else one commit.
add_message(r, role, content, next) ==
    LET c == th[r].conversation_id[1]
    IN  \/ /\ get_conversation(c, th[r].user_id[1]) = None
           /\ Raise(r, "agent_error_log", ErrNoConv)
           /\ messages' = messages
        \/ /\ get_conversation(c, th[r].user_id[1]) # None
           /\ messages' = [messages EXCEPT ![c] = Append(@, Message(role, content))]
           /\ Goto(r, next)
           /\ th' = th
        \/ /\ Raise(r, "agent_error_log", ErrDb)
           /\ messages' = messages

SaveUserMessage(r) ==
    /\ pc[r] = "save_user"
    /\ add_message(r, "user", th[r].input_text[1], "save_assistant")
    /\ UNCHANGED <<base, call, resp, scheduled, stream, agents, convs, runs, trail, steps, nextRunId, now>>

SaveAssistantMessage(r) ==
    /\ pc[r] = "save_assistant"
    /\ add_message(r, "assistant", th[r].output_text[1], "log_final")
    /\ UNCHANGED <<base, call, resp, scheduled, stream, agents, convs, runs, trail, steps, nextRunId, now>>

\* The FINAL_ANSWER step: the counter is not advanced after it.
LogFinal(r) ==
    /\ pc[r] = "log_final"
    /\ \E o \in LogOutcomes(r) :
          /\ log_step(r, o, FinalStep(th[r].step_order, th[r].output_text[1]))
          /\ IF o = "ok"
             THEN Goto(r, "commit_completed") /\ th' = th
             ELSE RaiseFromLog(r, "agent_error_log")
    /\ UNCHANGED <<base, call, resp, scheduled, stream, agents, convs, messages, runs, trail, nextRunId, now>>

CommitCompleted(r) ==
    /\ pc[r] = "commit_completed"
    /\ \E o \in CommitOutcomes(r) :
          IF o = "ok"
          THEN /\ WriteRun(r, CompletedRow(runs[r], th[r].output_text[1], now))
               /\ now' = now + 1
               /\ Goto(r, "done")
               /\ th' = th
          ELSE /\ Raise(r, "agent_error_log", ErrDb)
               /\ UNCHANGED <<runs, trail, now>>
    /\ UNCHANGED <<base, call, resp, scheduled, stream, agents, convs, messages, steps, nextRunId>>

\* except Exception as agent_error (the inner handler).
AgentErrorLog(r) ==
    /\ pc[r] = "agent_error_log"
    /\ \E o \in LogOutcomes(r) :
          /\ log_step(r, o, ErrorStep(th[r].step_order, th[r].exc[1]))
          /\ IF o = "ok"
             THEN Goto(r, "agent_error_commit") /\ th' = th
             ELSE RaiseFromLog(r, "fatal_commit")
    /\ UNCHANGED <<base, call, resp, scheduled, stream, agents, convs, messages, runs, trail, nextRunId, now>>

AgentErrorCommit(r) ==
    /\ pc[r] = "agent_error_commit"
    /\ \E o \in CommitOutcomes(r) :
          IF o = "ok"
          THEN /\ WriteRun(r, FailedRow(runs[r], th[r].exc[1], now))
               /\ now' = now + 1
               /\ Goto(r, "done")
               /\ th' = th
          ELSE /\ Raise(r, "fatal_commit", ErrDb)
               /\ UNCHANGED <<runs, trail, now>>
    /\ UNCHANGED <<base, call, resp, scheduled, stream, agents, convs, messages, steps, nextRunId>>

\* except Exception as e (the outer handler): the status first, then the step.
FatalCommit(r) ==
    /\ pc[r] = "fatal_commit"
    /\ \E o \in CommitOutcomes(r) :
          IF o = "ok"
          THEN /\ WriteRun(r, FailedRow(runs[r], FatalMessage(th[r].exc[1]), now))
               /\ now' = now + 1
               /\ Goto(r, "fatal_log")
               /\ th' = th
          ELSE /\ Raise(r, "crashed", IF Exists(r) THEN ErrDb ELSE ErrNoRun)
               /\ UNCHANGED <<runs, trail, now>>
    /\ UNCHANGED <<base, call, resp, scheduled, stream, agents, convs, messages, steps, nextRunId>>

FatalLog(r) ==
    /\ pc[r] = "fatal_log"
    /\ \E o \in LogOutcomes(r) :
          /\ log_step(r, o, ErrorStep(th[r].step_order, th[r].exc[1]))
          /\ IF o = "ok"
             THEN Goto(r, "done") /\ th' = th
             ELSE RaiseFromLog(r, "crashed")
    /\ UNCHANGED <<base, call, resp, scheduled, stream, agents, convs, messages, runs, trail, nextRunId, now>>

execute_run(r) ==
    \/ SetRunning(r)
    \/ LoadHistory(r)
    \/ LogHistory(r)
    \/ LogInput(r)
    \/ BuildAgent(r)
    \/ LoopToolCycle(r)
    \/ LoopKbCycle(r)
    \/ LoopAnswer(r)
    \/ LoopRaise(r)
    \/ SaveUserMessage(r)
    \/ SaveAssistantMessage(r)
    \/ LogFinal(r)
    \/ CommitCompleted(r)
    \/ AgentErrorLog(r)
    \/ AgentErrorCommit(r)
    \/ FatalCommit(r)
    \/ FatalLog(r)

execute_run_async(r) ==
    \/ AsyncLoad(r)
    \/ AsyncAgent(r)
    \/ execute_run(r)

Next ==
    \/ \E u \in Users, a \in AgentIds, c \in {None} \cup {Some(x) : x \in ConvIds},
          text \in Inputs : CreateRun(u, a, c, text)
    \/ \E r \in RunIds : start_run_execution(r)
    \/ \E a \in AgentIds : delete_agent(a)
    \/ \E r \in RunIds : execute_run_async(r)

Spec == Init /\ [][Next]_vars

\* ----------------------------------------------------------------- claims
Terminal == {"COMPLETED", "FAILED"}

\* The background thread of run r has returned or died of an exception.
Ended(r) == pc[r] \in {"done", "crashed"}

AllowedTransitions ==
    {<<"PENDING", "RUNNING">>, <<"RUNNING", "COMPLETED">>,
     <<"RUNNING", "FAILED">>, <<"PENDING", "FAILED">>}

Held(r, status) == \E i \in 1..Len(trail[r]) : trail[r][i] = status

CountType(log, type) == Cardinality({i \in 1..Len(log) : log[i].step_type = type})

\* C1: the committed status of a run changes only along PENDING->RUNNING,
\* RUNNING->COMPLETED, RUNNING->FAILED or PENDING->FAILED, so no step changes
\* it once COMPLETED or FAILED is committed.
C1_StatusTransitions ==
    [][\A r \in DOMAIN runs \cap DOMAIN runs' :
          runs'[r].status # runs[r].status
             => <<runs[r].status, runs'[r].status>> \in AllowedTransitions]_vars

C1_Witness ==
    \E r \in DOMAIN runs :
        /\ trail[r] = <<"PENDING", "RUNNING", "FAILED">>
        /\ Ended(r)

\* C2: every dispatched run whose thread has ended has committed status
\* COMPLETED or FAILED, whichever step failed.
C2_EndsTerminal ==
    \A r \in DOMAIN runs : Ended(r) => runs[r].status \in Terminal

\* C3: the step_order values of a run's steps are 0..n-1 in the order the
\* steps were recorded.
C3_StepOrderGapless ==
    \A r \in DOMAIN steps :
        \A i \in 1..Len(steps[r]) : steps[r][i].step_order = i - 1

\* C4: every LLM call and every tool invocation with its result that the
\* reasoning loop has performed is recorded as a step of the run.
C4_TraceComplete ==
    \A r \in DOMAIN steps :
        /\ CountType(steps[r], "LLM_CALL") >= th[r].llm_calls
        /\ CountType(steps[r], "TOOL_CALL") >= th[r].tool_calls
        /\ CountType(steps[r], "TOOL_RESULT") >= th[r].tool_calls

\* C5: when the execution attempt has ended with status FAILED, the step log
\* holds an ERROR step carrying a message.
C5_FailedHasErrorStep ==
    \A r \in DOMAIN runs :
        Ended(r) /\ runs[r].status = "FAILED"
           => \E i \in 1..Len(steps[r]) :
                 /\ steps[r][i].step_type = "ERROR"
                 /\ steps[r][i].error_message # None

\* C6: a COMPLETED run has output_text set, and its step of highest
\* step_order is a FINAL_ANSWER step whose answer is that output_text.
C6_CompletedHasFinalAnswer ==
    \A r \in DOMAIN runs :
        runs[r].status = "COMPLETED"
           => /\ runs[r].output_text # None
              /\ steps[r] # <<>>
              /\ \A i \in 1..Len(steps[r]) :
                    (\A j \in 1..Len(steps[r]) :
                        steps[r][j].step_order <= steps[r][i].step_order)
                       => /\ steps[r][i].step_type = "FINAL_ANSWER"
                          /\ steps[r][i].output_data
                                = Some([answer |-> runs[r].output_text[1]])

C6_Witness ==
    \E r \in DOMAIN runs :
        /\ runs[r].status = "COMPLETED"
        /\ Len(steps[r]) = 3

\* C7: a run never has both output_text and error_message; output_text is
\* set only in COMPLETED, error_message only in FAILED.
C7_OutputErrorExclusive ==
    \A r \in DOMAIN runs :
        /\ ~(runs[r].output_text # None /\ runs[r].error_message # None)
        /\ runs[r].output_text # None => runs[r].status = "COMPLETED"
        /\ runs[r].error_message # None => runs[r].status = "FAILED"

\* A run that failed after its loop had returned an answer.
C7_Witness ==
    \E r \in DOMAIN runs :
        /\ runs[r].status = "FAILED"
        /\ runs[r].error_message # None
        /\ th[r].output_text # None

\* C8: completed_at is set exactly when the status is COMPLETED or FAILED,
\* and started_at exactly when the run has entered RUNNING.
C8_Timestamps ==
    \A r \in DOMAIN runs :
        /\ runs[r].completed_at # None <=> runs[r].status \in Terminal
        /\ runs[r].started_at # None <=> Held(r, "RUNNING")

\* A run that went from PENDING to FAILED.
C8_Witness ==
    \E r \in DOMAIN runs :
        /\ runs[r].status = "FAILED"
        /\ ~Held(r, "RUNNING")
        /\ runs[r].completed_at # None

\* A run without conversation history whose loop returned an answer and
\* whose thread returned without any step having raised.
C9_Case(r) ==
    /\ r \in DOMAIN runs
    /\ pc[r] = "done"
    /\ th[r].exc = None
    /\ th[r].output_text # None
    /\ th[r].history_messages = <<>>

C10_Recorded(r) ==
    /\ r \in DOMAIN runs
    /\ pc[r] = "build_agent"
    /\ th[r].exc = None

\* Run r has a conversation id that names a conversation of its user.
C10_ValidConversation(r) ==
    /\ th[r].conversation_id # None
    /\ get_conversation(th[r].conversation_id[1], th[r].user_id[1]) # None

C10_WithHistoryStep(r) ==
    /\ Len(steps[r]) = 2
    /\ steps[r][1].step_order = 0
    /\ steps[r][1].step_type = "LLM_CALL"
    /\ steps[r][1].input_data
          = Some([conversation_history |->
                    <<"Loaded", Len(th[r].history_messages), "previous messages">>])
    /\ steps[r][2] = InputStep(1, runs[r].input_text)

C10_WithoutConversation(r) ==
    th[r].conversation_id = None => steps[r] = <<InputStep(0, runs[r].input_text)>>

\* C10 as stated: every run with a valid conversation, whatever the number
\* of stored messages, records one step more than a run without one: the
\* history step at step_order 0, before the input step.
C10_OneMoreStep ==
    \A r \in RunIds :
        C10_Recorded(r)
           => /\ C10_WithoutConversation(r)
              /\ C10_ValidConversation(r) => C10_WithHistoryStep(r)

\* C10 amended: the same for every valid conversation that holds at least
\* one stored message when the history is loaded.
C10_OneMoreStepIfHistory ==
    \A r \in RunIds :
        C10_Recorded(r)
           => /\ C10_WithoutConversation(r)
              /\ C10_ValidConversation(r) /\ th[r].history_messages # <<>>
                    => C10_WithHistoryStep(r)

C10_Witness ==
    \E r \in RunIds :
        /\ C10_Recorded(r)
        /\ C10_ValidConversation(r)
        /\ th[r].history_messages # <<>>

\* The two turns that run r appends to its conversation.
C11_Turns(r) ==
    <<Message("user", runs[r].input_text),
      Message("assistant", runs[r].output_text[1])>>

\* C11: for a run with a conversation whose thread has ended, the stored
\* messages of that conversation are the earlier ones followed by the user
\* turn and the assistant turn when the run is COMPLETED, and are the
\* earlier ones, unchanged, when the run is FAILED.
C11_TurnsIffCompleted ==
    \A r \in DOMAIN runs :
        Ended(r) /\ runs[r].conversation_id # None
           => LET c == runs[r].conversation_id[1]
              IN  /\ runs[r].status = "COMPLETED"
                        => messages[c] = base[r] \o C11_Turns(r)
                  /\ runs[r].status = "FAILED" => messages[c] = base[r]

\* C11, the half that holds: a COMPLETED run has appended both turns.
C11_CompletedAppended ==
    \A r \in DOMAIN runs :
        runs[r].status = "COMPLETED" /\ runs[r].conversation_id # None
           => messages[runs[r].conversation_id[1]] = base[r] \o C11_Turns(r)

\* ------------------------------------------------ the tool gateway alone
\* Tool names a caller can pass: the registered ones, the name of the
\* knowledge-base tool (not in the registry) and a name of no tool.
ToolNames == TOOL_HANDLERS \cup {"knowledge_base_search", "shell_exec"}

\* Argument maps of the LLM: well-formed ones for each tool, the empty map,
\* and maps that carry keys of the trusted context.
Arguments ==
    {[query |-> q] : q \in Queries}
    \cup {[doc_id |-> d] : d \in DocIdsAsked}
    \cup {[doc_id |-> d, user_id |-> u] : d \in DocIdsAsked, u \in Users}
    \cup {[url |-> "http://svc/"]}
    \cup {[url |-> "http://svc/", method |-> m] : m \in Methods}
    \cup {<<>>}

Contexts == {ToolContext(u, a) : u \in Users, a \in AgentIds} \cup {<<>>}

\* One call of execute_tool; calls share no state, so a behaviour makes one.
ExecuteTool(tool_name, arguments, context, env) ==
    /\ call = None
    /\ call' = Some([tool_name |-> tool_name, arguments |-> arguments,
                     context |-> context, env |-> env,
                     result |-> execute_tool(tool_name, arguments, context, env)])
    /\ UNCHANGED <<resp, scheduled, stream, agents, convs, messages, runs, steps, nextRunId, now, trail,
                   base, pc, th>>

NextTools ==
    \E tool_name \in ToolNames, arguments \in Arguments, context \in Contexts,
       env \in Envs : ExecuteTool(tool_name, arguments, context, env)

SpecTools == Init /\ [][NextTools]_vars

\* C12: execute_tool never raises: whatever the tool name, the argument map,
\* the context and the backends do, it returns a map; for a name that is not
\* registered the map is an error map and no handler is called; an exception
\* raised by calling the handler comes back as an error map.
C12_NeverRaises ==
    call # None
       => LET c == call[1]
              out == Call(c.tool_name, c.context @@ c.arguments, c.env)
          IN  /\ ~c.result.raised
              /\ c.tool_name \notin TOOL_HANDLERS
                    => /\ c.result.value = ErrorMap("Unknown tool: " \o c.tool_name)
                       /\ c.result.effects = {}
              /\ c.tool_name \in TOOL_HANDLERS /\ out.raised
                    => c.result.value = ErrorMap("Tool execution failed: " \o out.value)

\* A registered handler called without a required argument.
C12_Witness ==
    /\ call # None
    /\ call[1].tool_name = "sql_query"
    /\ call[1].arguments = <<>>
    /\ call[1].result.value = ErrorMap("Tool execution failed: " \o ErrMissingArg)

\* A tool called through the gateway has failed in run r.
C13_GatewayToolFailed(r) == th[r].failed_tools \cap TOOL_HANDLERS # {}

\* C13: a failure of a tool called through the gateway is not fatal: the run
\* is not FAILED unless an exception was raised, and once its thread has
\* ended the run is COMPLETED or FAILED.
C13_ToolFailureNotFatal ==
    \A r \in DOMAIN runs :
        C13_GatewayToolFailed(r)
           => /\ th[r].exc = None => runs[r].status # "FAILED"
              /\ Ended(r) => runs[r].status \in Terminal

\* C13, the part that holds: the step in which a gateway tool fails feeds an
\* error map back to the loop, raises nothing and writes no run row.
C13_ErrorMapFedBack ==
    [][\A r \in DOMAIN runs :
          ~C13_GatewayToolFailed(r) /\ C13_GatewayToolFailed(r)'
             => /\ th'[r].tool_result # None
                /\ IsError(th'[r].tool_result[1])
                /\ pc'[r] = "run_agent"
                /\ th'[r].exc = th[r].exc
                /\ runs' = runs]_vars

\* C13, the same without the storage failures of C2: a run in which a
\* gateway tool failed and nothing raised ends COMPLETED.
C13_CompletesIfNothingRaises ==
    \A r \in DOMAIN runs :
        C13_GatewayToolFailed(r) /\ pc[r] = "done" /\ th[r].exc = None
           => runs[r].status = "COMPLETED"

\* The query, trimmed and lower-cased, begins with "select" and holds none
\* of the seven keywords.
C14_Allowed(query) ==
    LET q == lower(strip(query))
    IN  /\ startswith(q, Select)
        /\ \A k \in 1..Len(dangerous) : ~contains(q, dangerous[k])

\* C14: sql_query hands a query to storage only if the query is allowed;
\* every other query returns an error map and storage is not touched;
\* SELECT * FROM x is handed to storage, DROP TABLE x and UPDATE x SET a=1
\* are not.
C14_OnlySelectExecutes ==
    call # None /\ call[1].tool_name = "sql_query"
                /\ "query" \in DOMAIN call[1].arguments
       => LET c == call[1]
              query == c.arguments.query
              executed == "db.execute" \in c.result.effects
          IN  /\ executed => C14_Allowed(query)
              /\ ~C14_Allowed(query) => IsError(c.result.value) /\ ~executed
              /\ C14_Allowed(query) /\ c.context # <<>> => executed
              /\ C14_Allowed(QSelectAll)
              /\ ~C14_Allowed(QDrop) /\ ~C14_Allowed(QUpdate)

\* A query that begins with select and holds a keyword further on.
C14_Witness ==
    /\ call # None
    /\ call[1].tool_name = "sql_query"
    /\ call[1].arguments = [query |-> QStacked]
    /\ call[1].context # <<>>
    /\ call[1].result.value = ErrorMap("Query contains forbidden keywords")

\* A document id that names no row.
C15_AbsentDoc == CHOOSE d \in DocIdsAsked : d \notin Documents

\* C15: for a file_fetch call made for a caller (the user_id of the trusted
\* context), the result for a document of another user is the result the
\* same call gives for a document id that names no row, and a result that
\* carries content is for a document the caller owns.
C15_OwnerIsolation ==
    call # None /\ call[1].tool_name = "file_fetch"
                /\ call[1].context # <<>>
                /\ "doc_id" \in DOMAIN call[1].arguments
       => LET c == call[1]
              d == c.arguments.doc_id
              caller == c.context.user_id
          IN  /\ d \in Documents /\ DocOwner(d) # caller
                    => c.result.value
                          = execute_tool("file_fetch",
                                         [c.arguments EXCEPT !.doc_id = C15_AbsentDoc],
                                         c.context, c.env).value
              /\ "content" \in DOMAIN c.result.value
                    => d \in Documents /\ DocOwner(d) = caller

\* User 1 asks for the document of user 2 while every backend answers.
C15_Witness ==
    /\ call # None
    /\ call[1].tool_name = "file_fetch"
    /\ call[1].context # <<>>
    /\ call[1].context.user_id = 1
    /\ call[1].arguments = [doc_id |-> 2]
    /\ call[1].env = "up"
    /\ call[1].result.value = ErrorMap("Document not found or access denied")

\* The knowledge-base tool of run r was called while the retrieval backend
\* was unreachable, and the thread of the run has ended.
C16_Case(r) ==
    /\ r \in DOMAIN runs
    /\ Ended(r)
    /\ "knowledge_base_search" \in th[r].failed_tools

\* C16: a run of a kb_enabled agent whose knowledge-base tool was called
\* with the retrieval backend unreachable ends FAILED with an error_message
\* and has an ERROR step with an error_message in its step log.
C16_KbFailureFailsRun ==
    \A r \in RunIds :
        C16_Case(r)
           => /\ runs[r].status = "FAILED"
              /\ runs[r].error_message # None
              /\ \E i \in 1..Len(steps[r]) :
                    /\ steps[r][i].step_type = "ERROR"
                    /\ steps[r][i].error_message # None

\* C16 where the exception of the tool has left the loop and the writes of
\* the handler at runner.py:164-180 have succeeded.
C16_FailsWhenHandlerWrites ==
    \A r \in RunIds :
        C16_Case(r) /\ pc[r] = "done"
                    /\ th[r].exc = Some("Qdrant search failed: " \o ErrConn)
           => /\ runs[r].status = "FAILED"
              /\ runs[r].error_message # None
              /\ \E i \in 1..Len(steps[r]) :
                    /\ steps[r][i].step_type = "ERROR"
                    /\ steps[r][i].error_message # None

\* The agent or the conversation that request q names is not the caller's.
C17_NotTheCallers(q) ==
    \/ q.agent_id \notin agents
    \/ AgentOwner(q.agent_id) # q.user_id
    \/ /\ q.conversation_id # None
       /\ \/ q.conversation_id[1] \notin convs
          \/ ConvOwner(q.conversation_id[1]) # q.user_id

\* C17: a request to create a run that names an agent or a conversation of
\* somebody else is refused with no run row written and no execution
\* dispatched; an accepted request writes exactly one run row, PENDING and
\* owned by the caller, and dispatches it.
C17_RejectsBeforeAnything ==
    [][resp' # resp
         => LET q == resp'[1].request
            IN  /\ C17_NotTheCallers(q)
                      => /\ resp'[1].status_code # 201
                         /\ runs' = runs
                         /\ steps' = steps
                         /\ pc' = pc
                /\ resp'[1].status_code = 201
                      => \E id \in RunIds \ DOMAIN runs :
                            /\ resp'[1].run_id = Some(id)
                            /\ DOMAIN runs' = DOMAIN runs \cup {id}
                            /\ \A r \in DOMAIN runs : runs'[r] = runs[r]
                            /\ runs'[id].status = "PENDING"
                            /\ runs'[id].user_id = q.user_id
                            /\ pc'[id] = "queued"]_vars

\* User 2 names its own agent and a conversation of user 1, and is refused.
C17_Witness ==
    /\ resp # None
    /\ resp[1].status_code = 400
    /\ resp[1].request.user_id = 2
    /\ resp[1].request.agent_id = 2
    /\ resp[1].request.conversation_id = Some(1)
    /\ 2 \in agents
    /\ runs = <<>>

\* C18: for every run row exactly one execution of the orchestrator has
\* been scheduled.
C18_ExactlyOneExecution ==
    \A r \in DOMAIN runs : scheduled[r] = 1

\* C18, the parts that hold: no run id ever has more than one execution
\* scheduled, so its status and steps have one writer.
C18_AtMostOneExecutor ==
    \A r \in RunIds : scheduled[r] <= 1

\* The dispatcher starts the thread and returns: the step reads and writes
\* no run row, no step and no response.
C18_DispatcherDoesNotWait ==
    [][\A r \in RunIds :
          pc[r] = "queued" /\ pc'[r] # "queued"
             => /\ pc'[r] = "async_load"
                /\ runs' = runs
                /\ steps' = steps
                /\ resp' = resp]_vars

\* ------------------------------------------------------ the status stream
max_polls == 120

ErrRefresh == "Could not refresh instance"

Event(name, data) == [event |-> name, data |-> data]

StatusEvent(status, message) ==
    Event("status", [status |-> status, message |-> message])

\* The events after which a consumer takes the stream to be over.
Closing == {"complete", "error", "timeout"}

\* if poll_count >= max_polls, after the loop
TimedOut(poll_count) == poll_count >= max_polls

\* Mutant: a status event is sent at every poll.
StatusChanged_Always(st, run) == TRUE

\* Mutant: no status event is sent after the first.
StatusChanged_Never(st, run) == FALSE

\* if run.status != last_status
StatusChanged(st, run) == Some(run.status) # st.last_status

\* One pass of the while loop with the row that db.refresh has read and,
\* when the pass leaves the loop, the check after the loop.
Poll(st, run) ==
    LET n == st.poll_count + 1
        changed == StatusChanged(st, run)
        broke == run.status \in Terminal
        left == broke \/ ~(n < max_polls)
        status == IF changed
                  THEN <<StatusEvent(run.status, "Status: " \o run.status)>>
                  ELSE <<>>
        final == IF run.status = "COMPLETED"
                 THEN <<Event("complete", [output |-> run.output_text])>>
                 ELSE IF run.status = "FAILED"
                 THEN <<Event("error", [error |-> run.error_message])>>
                 ELSE <<>>
        heartbeat == IF ~broke /\ n % 10 = 0
                     THEN <<Event("heartbeat", [poll_count |-> n])>>
                     ELSE <<>>
        timeout == IF left /\ TimedOut(n)
                   THEN <<Event("timeout", [message |-> "Run execution timeout"])>>
                   ELSE <<>>
    IN  [st EXCEPT !.pc = IF left THEN "closed" ELSE "polling",
                   !.poll_count = n,
                   !.last_status = Some(run.status),
                   !.terminal_at = IF broke THEN Some(n) ELSE None,
                   !.events = @ \o status \o final \o heartbeat \o timeout]

\* except Exception as e: the error event with str(e), and the end.
StreamRaise(st, e) ==
    [st EXCEPT !.pc = "closed", !.exc = Some(e),
               !.events = Append(@, Event("error", [error |-> Some(e)]))]

\* The first query, by run id and user id, and the first event.
StreamOpen(r, u) ==
    /\ stream.pc = "idle"
    /\ stream' \in
          {StreamRaise(stream, ErrDb)}
          \cup {IF r \in DOMAIN runs /\ runs[r].user_id = u
                THEN [stream EXCEPT
                         !.pc = "polling",
                         !.run_id = Some(r),
                         !.last_status = Some(runs[r].status),
                         !.events = <<StatusEvent(runs[r].status, "Starting...")>>]
                ELSE [stream EXCEPT
                         !.pc = "closed",
                         !.events = <<Event("error", [error |-> Some("Run not found")])>>]}
    /\ UNCHANGED <<agents, convs, messages, runs, steps, nextRunId, now, trail,
                   base, call, resp, scheduled, pc, th>>

\* asyncio.sleep(1), poll_count += 1, db.refresh(run) and the rest of the
\* pass.  The refresh raises when the row is gone, and may raise anyway.
StreamPoll ==
    /\ stream.pc = "polling"
    /\ LET r == stream.run_id[1]
           st == [stream EXCEPT !.poll_count = @ + 1]
       IN  stream' \in
              {StreamRaise(st, IF r \in DOMAIN runs THEN ErrDb ELSE ErrRefresh)}
              \cup (IF r \in DOMAIN runs THEN {Poll(stream, runs[r])} ELSE {})
    /\ UNCHANGED <<agents, convs, messages, runs, steps, nextRunId, now, trail,
                   base, call, resp, scheduled, pc, th>>

\* The run as the stream sees it: the commits of execute_run to its row.
StartCommitted(r) ==
    /\ r \in DOMAIN runs
    /\ runs[r].status = "PENDING"
    /\ WriteRun(r, RunningRow(runs[r], now))
    /\ now' = now + 1
    /\ UNCHANGED <<agents, convs, messages, steps, nextRunId, base, call, resp,
                   scheduled, stream, pc, th>>

CompletedCommitted(r) ==
    /\ r \in DOMAIN runs
    /\ runs[r].status = "RUNNING"
    /\ \E out \in Answers : WriteRun(r, CompletedRow(runs[r], out, now))
    /\ now' = now + 1
    /\ UNCHANGED <<agents, convs, messages, steps, nextRunId, base, call, resp,
                   scheduled, stream, pc, th>>

FailedCommitted(r) ==
    /\ r \in DOMAIN runs
    /\ runs[r].status = "RUNNING"
    /\ \E e \in {ErrLLM, FatalMessage(ErrDb)} : WriteRun(r, FailedRow(runs[r], e, now))
    /\ now' = now + 1
    /\ UNCHANGED <<agents, convs, messages, steps, nextRunId, base, call, resp,
                   scheduled, stream, pc, th>>

\* delete_run: the row and, by cascade, its steps.
delete_run(r) ==
    /\ r \in DOMAIN runs
    /\ runs' = [x \in DOMAIN runs \ {r} |-> runs[x]]
    /\ steps' = [x \in DOMAIN steps \ {r} |-> steps[x]]
    /\ UNCHANGED <<agents, convs, messages, nextRunId, now, trail, base, call,
                   resp, scheduled, stream, pc, th>>

\* A run has been created and dispatched; no stream is open.
InitStream ==
    /\ agents = AgentIds
    /\ convs = ConvIds
    /\ messages = [c \in ConvIds |-> <<>>]
    /\ \E u \in Users, text \in Inputs :
          /\ runs = (1 :> NewRun(u, u, None, text))
          /\ resp = Response(201, RunCreate(u, u, None, text), Some(1))
    /\ steps = (1 :> <<>>)
    /\ nextRunId = 2
    /\ now = 1
    /\ trail = [r \in RunIds |-> <<"PENDING">>]
    /\ base = [r \in RunIds |-> <<>>]
    /\ call = None
    /\ scheduled = [r \in RunIds |-> 1]
    /\ stream = NoStream
    /\ pc = [r \in RunIds |-> "queued"]
    /\ th = [r \in RunIds |-> NoLocals]

NextStream ==
    \/ \E r \in RunIds, u \in Users : StreamOpen(r, u)
    \/ StreamPoll
    \/ \E r \in RunIds : StartCommitted(r)
    \/ \E r \in RunIds : CompletedCommitted(r)
    \/ \E r \in RunIds : FailedCommitted(r)
    \/ \E r \in RunIds : delete_run(r)

SpecStream == InitStream /\ [][NextStream]_vars

\* The names of the events the stream has sent.
Sent == {stream.events[i].event : i \in 1..Len(stream.events)}

\* The stream of an existing run has ended and none of its reads raised.
C19_Case ==
    /\ stream.pc = "closed"
    /\ stream.run_id # None
    /\ stream.exc = None

\* A complete event with the output or an error event with the message.
C19_FinalSent ==
    \E i \in 1..Len(stream.events) :
        \/ /\ stream.events[i].event = "complete"
           /\ stream.events[i].data.output # None
        \/ /\ stream.events[i].event = "error"
           /\ stream.events[i].data.error # None

\* C19: the stream of an existing run sends a complete event with the
\* output or an error event with the message at the poll that first reads
\* COMPLETED or FAILED, and sends a timeout event if and only if no poll
\* up to the 120th has read COMPLETED or FAILED.
C19_FinalOrTimeout ==
    C19_Case
       => /\ stream.terminal_at # None => C19_FinalSent
          /\ "timeout" \in Sent <=> stream.terminal_at = None

\* C19 for the streams that read the terminal status before the last poll.
C19_BeforeLastPoll ==
    C19_Case /\ stream.terminal_at # Some(max_polls)
       => /\ stream.terminal_at # None => C19_FinalSent
          /\ "timeout" \in Sent <=> stream.terminal_at = None

\* C20: a stream that has ended has sent exactly one closing event
\* (complete, error or timeout), and that event is the last it sent,
\* at whatever poll the terminal status was read.
C20_OneClosingEvent ==
    stream.pc = "closed"
       => /\ Cardinality({i \in 1..Len(stream.events) :
                            stream.events[i].event \in Closing}) = 1
          /\ stream.events[Len(stream.events)].event \in Closing

\* C20 for the streams that did not read the terminal status at the last
\* poll.
C20_OneClosingBeforeLastPoll ==
    stream.pc = "closed" /\ stream.terminal_at # Some(max_polls)
       => /\ Cardinality({i \in 1..Len(stream.events) :
                            stream.events[i].event \in Closing}) = 1
          /\ stream.events[Len(stream.events)].event \in Closing

\* The statuses that the status events of the stream carry, in the order sent.
StatusesSent ==
    LET idx == {i \in 1..Len(stream.events) : stream.events[i].event = "status"}
        RECURSIVE Collect(_)
        Collect(i) ==
            IF i > Len(stream.events) THEN <<>>
            ELSE (IF i \in idx THEN <<stream.events[i].data.status>> ELSE <<>>)
                 \o Collect(i + 1)
    IN  Collect(1)

\* C21: the statuses of the status events of a stream are statuses the run
\* has held, in the order in which the run held them, each at most once.
C21_StatusEventsInOrder ==
    stream.run_id # None
       => LET r == stream.run_id[1]
              sent == StatusesSent
          IN  \E f \in [1..Len(sent) -> 1..Len(trail[r])] :
                 /\ \A i \in 1..Len(sent) : trail[r][f[i]] = sent[i]
                 /\ \A i, j \in 1..Len(sent) : i < j => f[i] < f[j]

\* The stream has reported PENDING, RUNNING and COMPLETED.
C21_Witness ==
    /\ stream.run_id # None
    /\ StatusesSent = <<"PENDING", "RUNNING", "COMPLETED">>

\* The place of status s in the statuses committed for run r.
C22_Place(r, s) == CHOOSE k \in 1..Len(trail[r]) : trail[r][k] = s

\* C22 as stated: once the stream has read the terminal status, every status
\* committed since the one it reported first has been reported, also when
\* two of them were committed between two polls.
C22_EveryChangeReported ==
    stream.run_id # None /\ stream.terminal_at # None
       => LET r == stream.run_id[1]
              sent == StatusesSent
          IN  \A k \in C22_Place(r, sent[1])..Len(trail[r]) :
                 \E i \in 1..Len(sent) : sent[i] = trail[r][k]

\* C22 amended: a poll whose read succeeds and finds a status other than
\* the last one reported sends one status event with the status read; any
\* other poll sends no status event.
C22_ChangeReadIsReported ==
    [][stream.pc = "polling" /\ stream'.poll_count = stream.poll_count + 1
                             /\ stream'.exc = None
          => LET read == runs[stream.run_id[1]].status
                 sent == StatusesSent
             IN  StatusesSent' = IF read # sent[Len(sent)]
                                 THEN Append(sent, read)
                                 ELSE sent]_vars

\* RUNNING was committed and replaced between two polls of the stream.
C22_Witness ==
    /\ stream.run_id # None
    /\ trail[stream.run_id[1]] = <<"PENDING", "RUNNING", "COMPLETED">>
    /\ StatusesSent = <<"PENDING", "COMPLETED">>

\* C23: a run one of whose log_step calls has raised does not end COMPLETED:
\* when its thread has ended it is FAILED with error_message set.
C23_LogFailureFailsRun ==
    \A r \in DOMAIN runs :
        th[r].log_failed
           => /\ runs[r].status # "COMPLETED"
              /\ Ended(r) => /\ runs[r].status = "FAILED"
                             /\ runs[r].error_message # None

\* C23, the part that holds: such a run is never COMPLETED, and it is FAILED
\* with error_message set once a commit of a handler has succeeded.
C23_NeverCompleted ==
    \A r \in DOMAIN runs :
        th[r].log_failed
           => /\ runs[r].status # "COMPLETED"
              /\ Held(r, "FAILED")
                    => /\ runs[r].status = "FAILED"
                       /\ runs[r].error_message # None
              /\ pc[r] = "done" => runs[r].status = "FAILED"

\* C24: in every state, a run whose committed status is FAILED has an ERROR
\* step in its step log: the step is committed before the status.
C24_ErrorStepBeforeFailed ==
    \A r \in DOMAIN runs :
        runs[r].status = "FAILED"
           => \E i \in 1..Len(steps[r]) : steps[r][i].step_type = "ERROR"

\* C24 for the loop-failure path alone: when the inner handler commits
\* FAILED, the ERROR step is in the log.
C24_LoopFailurePath ==
    [][\A r \in DOMAIN runs \cap DOMAIN runs' :
          pc[r] = "agent_error_commit" /\ runs'[r].status = "FAILED"
             => \E i \in 1..Len(steps'[r]) : steps'[r][i].step_type = "ERROR"]_vars

\* ------------------------------------------------ the text given to the loop
\* SpecPrompt: a conversation holds a stored history and one run prepares the
\* text it hands to the loop (runner.py:63-70 and 107-116).
MaxHistory == 12       \* messages the stored conversation holds at most
HistoryWindow == 10    \* history_messages[-10:]

Roles == {"user", "assistant"}

\* Role sequences runs leave behind: every assistant message follows the user
\* message of its turn; a turn whose assistant message was not saved is a
\* user message alone.
Histories ==
    UNION {{h \in [1..n -> Roles] :
              \A i \in 1..n : h[i] = "assistant" => i > 1 /\ h[i - 1] = "user"}
           : n \in 0..MaxHistory}

StoredHistory(h) == [i \in 1..Len(h) |-> Message(h[i], "m" \o ToString(i))]

\* seq[:n]
First_N(seq, n) == SubSeq(seq, 1, IF Len(seq) < n THEN Len(seq) ELSE n)

\* seq[-n:]
Last_N(seq, n) ==
    SubSeq(seq, IF Len(seq) > n THEN Len(seq) - n + 1 ELSE 1, Len(seq))

\* sep.join(parts)
RECURSIVE join(_, _)
join(sep, parts) ==
    IF parts = <<>> THEN ""
    ELSE IF Len(parts) = 1 THEN parts[1]
    ELSE join(sep, SubSeq(parts, 1, Len(parts) - 1)) \o sep \o parts[Len(parts)]

history_text(history_messages) ==
    LET window == Last_N(history_messages, HistoryWindow)
    IN  join("\n\n", [i \in 1..Len(window) |->
                         upper(window[i].role) \o ": " \o window[i].content])

full_input(history_messages, input_text) ==
    IF history_messages # <<>>
    THEN "Previous conversation:\n" \o history_text(history_messages)
            \o "\n\nCurrent query:\n" \o input_text
    ELSE input_text

\* The run loads the history of its conversation, if it has one, and builds
\* the text.
PrepareInput(conversation_id, user_id, input_text) ==
    /\ call = None
    /\ LET history_messages ==
               IF conversation_id # None
               THEN get_conversation_history(conversation_id[1], user_id)
               ELSE <<>>
       IN  call' = Some([conversation_id |-> conversation_id,
                         user_id |-> user_id,
                         input_text |-> input_text,
                         history_messages |-> history_messages,
                         full_input |-> full_input(history_messages, input_text)])
    /\ UNCHANGED <<agents, convs, messages, runs, steps, nextRunId, now, trail,
                   base, resp, scheduled, stream, pc, th>>

InitPrompt ==
    /\ agents = AgentIds
    /\ convs = ConvIds
    /\ \E h \in Histories :
          messages = [c \in ConvIds |-> IF c = 1 THEN StoredHistory(h) ELSE <<>>]
    /\ runs = <<>>
    /\ steps = <<>>
    /\ nextRunId = 1
    /\ now = 1
    /\ trail = [r \in RunIds |-> <<>>]
    /\ base = [r \in RunIds |-> <<>>]
    /\ call = None
    /\ resp = None
    /\ scheduled = [r \in RunIds |-> 0]
    /\ stream = NoStream
    /\ pc = [r \in RunIds |-> "none"]
    /\ th = [r \in RunIds |-> NoLocals]

NextPrompt ==
    \E conversation_id \in {None} \cup {Some(c) : c \in ConvIds},
       user_id \in Users, input_text \in Inputs :
          PrepareInput(conversation_id, user_id, input_text)

SpecPrompt == InitPrompt /\ [][NextPrompt]_vars

\* The labelled messages i..n of history h, each on from the one before it.
RECURSIVE C25_Entries(_, _, _)
C25_Entries(h, i, n) ==
    (IF h[i].role = "user" THEN "USER: " ELSE "ASSISTANT: ") \o h[i].content
       \o (IF i < n THEN "\n\n" \o C25_Entries(h, i + 1, n) ELSE "")

C25_Text ==
    call # None
       => LET h == call[1].history_messages
              n == Len(h)
              from == IF n > 10 THEN n - 9 ELSE 1
          IN  /\ n = 0 => call[1].full_input = call[1].input_text
              /\ n > 0 => call[1].full_input =
                             "Previous conversation:\n" \o C25_Entries(h, from, n)
                                \o "\n\nCurrent query:\n" \o call[1].input_text

\* C25: the text given to the loop holds the 10 most recent messages of the
\* loaded history at most, in stored order, each labelled with its role, and
\* then the current input; with an empty history it is the input alone; and
\* building it changes no stored message.
C25_PromptOfLastTen == [](C25_Text) /\ [][messages' = messages]_vars

\* A history of more than 10 messages was loaded and the text built from it.
C25_Witness ==
    /\ call # None
    /\ Len(call[1].history_messages) > 10
    /\ call[1].full_input # call[1].input_text
    /\ Len(messages[1]) = Len(call[1].history_messages)

\* ------------------------------------------------ a second invocation
\* SpecReentry: a created run is executed, and execute_run_async is invoked
\* once more for it after its first invocation has returned or died.  The row and the step log the
\* second invocation finds are kept in `call`.
Redispatch(r) ==
    /\ call = None
    /\ pc[r] \in {"done", "crashed"}
    /\ Exists(r)
    /\ runs[r].status # "PENDING"
    /\ call' = Some([run_id |-> r, run |-> runs[r], steps |-> steps[r]])
    /\ pc' = [pc EXCEPT ![r] = "async_load"]
    /\ th' = [th EXCEPT ![r] = NoLocals]
    /\ UNCHANGED <<agents, convs, messages, runs, steps, nextRunId, now, trail,
                   base, resp, scheduled, stream>>

\* A run of user u and agent u has been created and dispatched, with no
\* conversation or with conversation 1 of user 1.
InitReentry ==
    /\ agents = AgentIds
    /\ convs = ConvIds
    /\ \E n \in 0..MaxPriorTurns :
          messages = [c \in ConvIds |-> IF c = 1 THEN PriorTurns(n) ELSE <<>>]
    /\ \E u \in Users, c \in {None, Some(1)} :
          /\ c # None => get_conversation(c[1], u) # None
          /\ runs = (1 :> NewRun(u, u, c, "q1"))
          /\ resp = Response(201, RunCreate(u, u, c, "q1"), Some(1))
          /\ base = [r \in RunIds |-> IF c = None THEN <<>> ELSE messages[c[1]]]
    /\ steps = (1 :> <<>>)
    /\ nextRunId = 2
    /\ now = 1
    /\ trail = [r \in RunIds |-> <<"PENDING">>]
    /\ call = None
    /\ scheduled = [r \in RunIds |-> 1]
    /\ stream = NoStream
    /\ pc = [r \in RunIds |-> "queued"]
    /\ th = [r \in RunIds |-> NoLocals]

NextReentry ==
    \/ \E r \in RunIds : start_run_execution(r)
    \/ \E a \in AgentIds : delete_agent(a)
    \/ \E r \in RunIds : execute_run_async(r)
    \/ \E r \in RunIds : Redispatch(r)

SpecReentry == InitReentry /\ [][NextReentry]_vars

\* C26: the orchestrator invoked for a run that is not PENDING leaves the
\* run's status, output_text, error_message and step log as it found them.
C26_ReentryIsNoOp ==
    call # None /\ Exists(call[1].run_id)
       => LET r == call[1].run_id
          IN  /\ runs[r].status = call[1].run.status
              /\ runs[r].output_text = call[1].run.output_text
              /\ runs[r].error_message = call[1].run.error_message
              /\ steps[r] = call[1].steps

\* ------------------------------------------------------- run deletion
\* SpecDelete: Spec, and the owner of a run may delete it at any moment.
NextDelete ==
    \/ Next
    \/ \E r \in RunIds : delete_run(r)

SpecDelete == Init /\ [][NextDelete]_vars

\* Every step has its run.
C27_NoStepWithoutRun == DOMAIN steps = DOMAIN runs

\* Whatever is done, the steps a run has stay as they are and where they
\* are, unless the run goes, and then its steps go with it.
C27_Kept ==
    \A r \in DOMAIN steps :
        IF r \in DOMAIN runs'
        THEN /\ r \in DOMAIN steps'
             /\ Len(steps'[r]) >= Len(steps[r])
             /\ SubSeq(steps'[r], 1, Len(steps[r])) = steps[r]
        ELSE r \notin DOMAIN steps'

\* C27: steps are immutable once created: recording a step or changing the
\* status leaves the persisted steps of the run unchanged, a step disappears
\* only when its run is deleted, and then all steps of the run disappear
\* together.
C27_StepsImmutable == [](C27_NoStepWithoutRun) /\ [][C27_Kept]_vars

\* A run that had recorded steps was deleted by its owner, its agent still
\* there, and no step of it is left.
C27_Witness ==
    /\ ~Exists(1)
    /\ 1 \notin DOMAIN steps
    /\ agents = AgentIds
    /\ th[1].step_order >= 2

\* The keys the closure of build_agent always passes in the context.
C28_Trusted == {"user_id", "agent_id", "db"}

C28_Untrusted(arguments) ==
    [k \in DOMAIN arguments \ C28_Trusted |-> arguments[k]]

\* C28: in execute_tool the trusted context wins over the arguments of the
\* caller: the handler receives the user_id, agent_id and db of the context,
\* and the result does not depend on what the arguments say for those keys,
\* so a call cannot act as another owner or agent.
C28_ContextWins ==
    call # None /\ call[1].context # <<>>
       => LET c == call[1]
              received == merge_kwargs(c.arguments, c.context)
          IN  /\ \A k \in C28_Trusted : received[k] = c.context[k]
              /\ \A other \in Arguments :
                    C28_Untrusted(other) = C28_Untrusted(c.arguments)
                       => execute_tool(c.tool_name, other, c.context, c.env) = c.result

\* A caller asked for the document of another user and named that user as
\* user_id; the handler looked for a document of the context's user and
\* found none.
C28_Witness ==
    /\ call # None
    /\ call[1].tool_name = "file_fetch"
    /\ call[1].context # <<>>
    /\ "user_id" \in DOMAIN call[1].arguments
    /\ call[1].arguments.user_id # call[1].context.user_id
    /\ call[1].arguments.doc_id \in Documents
    /\ DocOwner(call[1].arguments.doc_id) = call[1].arguments.user_id
    /\ call[1].env = "up"
    /\ "error" \in DOMAIN call[1].result.value

\* C30: every run that has a conversation_id references a conversation of
\* its own owner and of its own agent.
C30_RunMatchesConversation ==
    \A r \in DOMAIN runs :
        runs[r].conversation_id # None
           => LET c == runs[r].conversation_id[1]
              IN  /\ c \in convs
                  /\ ConvOwner(c) = runs[r].user_id
                  /\ ConvAgent(c) = runs[r].agent_id

\* The half create_run enforces: the conversation is the run owner's.
C30_SameOwner ==
    \A r \in DOMAIN runs :
        runs[r].conversation_id # None
           => /\ runs[r].conversation_id[1] \in convs
              /\ ConvOwner(runs[r].conversation_id[1]) = runs[r].user_id

\* ------------------------------------------- two runs, one conversation
\* SpecTwoRuns: user 1 has created two runs of agent 1 on conversation 1,
\* with different inputs, and both were dispatched; each runs in a thread of
\* its own (run_service.py:121-135).  The loop answers without calling a tool.
TwoRuns == {1, 2}

InitTwoRuns ==
    /\ agents = AgentIds
    /\ convs = ConvIds
    /\ messages = [c \in ConvIds |-> <<>>]
    /\ runs = (1 :> NewRun(1, 1, Some(1), "q1")) @@ (2 :> NewRun(1, 1, Some(1), "q2"))
    /\ steps = (1 :> <<>>) @@ (2 :> <<>>)
    /\ nextRunId = 3
    /\ now = 1
    /\ trail = [r \in TwoRuns |-> <<"PENDING">>]
    /\ base = [r \in TwoRuns |-> <<>>]
    /\ call = None
    /\ resp = Response(201, RunCreate(1, 1, Some(1), "q2"), Some(2))
    /\ scheduled = [r \in TwoRuns |-> 1]
    /\ stream = NoStream
    /\ pc = [r \in TwoRuns |-> "queued"]
    /\ th = [r \in TwoRuns |-> NoLocals]

NextTwoRuns ==
    \E r \in TwoRuns :
        \/ start_run_execution(r)
        \/ AsyncLoad(r)
        \/ AsyncAgent(r)
        \/ SetRunning(r)
        \/ LoadHistory(r)
        \/ LogHistory(r)
        \/ LogInput(r)
        \/ BuildAgent(r)
        \/ LoopAnswer(r)
        \/ LoopRaise(r)
        \/ SaveUserMessage(r)
        \/ SaveAssistantMessage(r)
        \/ LogFinal(r)
        \/ CommitCompleted(r)
        \/ AgentErrorLog(r)
        \/ AgentErrorCommit(r)
        \/ FatalCommit(r)
        \/ FatalLog(r)

SpecTwoRuns == InitTwoRuns /\ [][NextTwoRuns]_vars

\* C29: of two runs on one conversation that execute at the same time, each
\* completed run has its user message immediately followed by its own
\* assistant message in the conversation.
C29_TurnsDoNotInterleave ==
    \A r \in DOMAIN runs :
        runs[r].status = "COMPLETED" /\ runs[r].conversation_id # None
           => LET m == messages[runs[r].conversation_id[1]]
              IN  \E i \in 1..(Len(m) - 1) :
                     /\ m[i] = Message("user", runs[r].input_text)
                     /\ m[i + 1] = Message("assistant", runs[r].output_text[1])
====
